---- MODULE Spec2Model ----
(***************************************************************************)
(* Dialect registry, dialect lookup by URL, anchor lookup and resource     *)
(* collection of src/src/draft.rs.                                         *)
(*                                                                         *)
(* A Rust string is a sequence of one-character strings, so that           *)
(* splitting, prefix stripping, percent-decoding, JSON-Pointer escaping    *)
(* and format!() concatenation are computed character by character.        *)
(* A character outside the ASCII table is the string "U+<code point>".     *)
(***************************************************************************)
EXTENDS Integers, Sequences, FiniteSets, TLC

VARIABLES
    self,       \* collect_resources: the dialect (&self)
    doc,        \* collect_resources: the document passed by the caller
    base0,      \* collect_resources: the initial base URL passed by the caller
    order,      \* iteration order of the HashMap self.subschemas
    stack,      \* call stack of collect_resources, innermost call last
    resources,  \* the caller's map: JSON Pointer -> Resource
    result,     \* None while running, Some(Ok) / Some(Err(ptr)) once the outermost call returned
    fu_in,      \* from_url: argument
    fu_out,     \* from_url: None while not called, Some(return value) afterwards
    ha_in,      \* has_anchor: arguments <<dialect, json, anchor>>
    ha_out      \* has_anchor: None while not called, Some(return value) afterwards

vars == <<self, doc, base0, order, stack, resources, result, fu_in, fu_out, ha_in, ha_out>>

None == [some |-> FALSE]
Some(v) == [some |-> TRUE, v |-> v]

----------------------------------------------------------------------------
(* Strings *)

AsciiCode ==
    (" " :> 32 @@ "!" :> 33 @@ "#" :> 35 @@ "$" :> 36 @@ "%" :> 37 @@ "&" :> 38 @@ "'" :> 39 @@ "(" :> 40
    @@ ")" :> 41 @@ "*" :> 42 @@ "+" :> 43 @@ "," :> 44 @@ "-" :> 45 @@ "." :> 46 @@ "/" :> 47 @@ "0" :> 48
    @@ "1" :> 49 @@ "2" :> 50 @@ "3" :> 51 @@ "4" :> 52 @@ "5" :> 53 @@ "6" :> 54 @@ "7" :> 55 @@ "8" :> 56
    @@ "9" :> 57 @@ ":" :> 58 @@ ";" :> 59 @@ "<" :> 60 @@ "=" :> 61 @@ ">" :> 62 @@ "?" :> 63 @@ "@" :> 64
    @@ "A" :> 65 @@ "B" :> 66 @@ "C" :> 67 @@ "D" :> 68 @@ "E" :> 69 @@ "F" :> 70 @@ "G" :> 71 @@ "H" :> 72
    @@ "I" :> 73 @@ "J" :> 74 @@ "K" :> 75 @@ "L" :> 76 @@ "M" :> 77 @@ "N" :> 78 @@ "O" :> 79 @@ "P" :> 80
    @@ "Q" :> 81 @@ "R" :> 82 @@ "S" :> 83 @@ "T" :> 84 @@ "U" :> 85 @@ "V" :> 86 @@ "W" :> 87 @@ "X" :> 88
    @@ "Y" :> 89 @@ "Z" :> 90 @@ "[" :> 91 @@ "]" :> 93 @@ "^" :> 94 @@ "_" :> 95 @@ "a" :> 97 @@ "b" :> 98
    @@ "c" :> 99 @@ "d" :> 100 @@ "e" :> 101 @@ "f" :> 102 @@ "g" :> 103 @@ "h" :> 104 @@ "i" :> 105 @@ "j" :> 106
    @@ "k" :> 107 @@ "l" :> 108 @@ "m" :> 109 @@ "n" :> 110 @@ "o" :> 111 @@ "p" :> 112 @@ "q" :> 113 @@ "r" :> 114
    @@ "s" :> 115 @@ "t" :> 116 @@ "u" :> 117 @@ "v" :> 118 @@ "w" :> 119 @@ "x" :> 120 @@ "y" :> 121 @@ "z" :> 122
    @@ "{" :> 123 @@ "|" :> 124 @@ "}" :> 125 @@ "~" :> 126)

AsciiChr(b) ==
    IF \E c \in DOMAIN AsciiCode : AsciiCode[c] = b
    THEN CHOOSE c \in DOMAIN AsciiCode : AsciiCode[c] = b
    ELSE "U+" \o ToString(b)

\* str::starts_with
StartsWith(s, p) == Len(s) >= Len(p) /\ SubSeq(s, 1, Len(p)) = p

\* str::strip_prefix, as used in: if let Some(s) = url.strip_prefix(p) { url = s }
StripPrefix(s, p) == IF StartsWith(s, p) THEN SubSeq(s, Len(p) + 1, Len(s)) ELSE s

\* str::find(char): index of the first occurrence, 0 when there is none
Find(s, c) ==
    IF \E i \in 1..Len(s) : s[i] = c
    THEN CHOOSE i \in 1..Len(s) : s[i] = c /\ \A j \in 1..(i - 1) : s[j] # c
    ELSE 0

\* the pieces of s between occurrences of c (str::split)
RECURSIVE SplitOn(_, _)
SplitOn(s, c) ==
    LET i == Find(s, c)
    IN  IF i = 0 THEN <<s>>
        ELSE <<SubSeq(s, 1, i - 1)>> \o SplitOn(SubSeq(s, i + 1, Len(s)), c)

Digits == <<"0", "1", "2", "3", "4", "5", "6", "7", "8", "9">>

\* Display of usize in format!("{i}"): decimal, no leading zeros
RECURSIVE Decimal(_)
Decimal(n) == IF n < 10 THEN <<Digits[n + 1]>> ELSE Decimal(n \div 10) \o <<Digits[(n % 10) + 1]>>

----------------------------------------------------------------------------
(* crate::util, used by draft.rs *)

\* split a reference into (pre-fragment, fragment) at the first '#'
split(url) ==
    LET i == Find(url, "#")
    IN  IF i = 0 THEN <<url, <<>>>>
        ELSE <<SubSeq(url, 1, i - 1), SubSeq(url, i + 1, Len(url))>>

\* escape a token for use as a JSON-Pointer segment: '~' -> "~0", '/' -> "~1"
RECURSIVE escape(_)
escape(s) ==
    IF s = <<>> THEN <<>>
    ELSE (CASE Head(s) = "~" -> <<"~", "0">>
            [] Head(s) = "/" -> <<"~", "1">>
            [] OTHER -> <<Head(s)>>) \o escape(Tail(s))

HexDigits == <<"0","1","2","3","4","5","6","7","8","9","a","b","c","d","e","f","A","B","C","D","E","F">>

HexVal(c) ==
    LET i == CHOOSE k \in 1..Len(HexDigits) : HexDigits[k] = c
    IN  IF i <= 16 THEN i - 1 ELSE i - 7

\* percent-decoding to bytes: "%XY" with two hex digits is one byte, anything else is literal
RECURSIVE PercentBytes(_)
PercentBytes(s) ==
    IF s = <<>> THEN <<>>
    ELSE IF /\ Head(s) = "%"
            /\ Len(s) >= 3
            /\ \E k \in 1..Len(HexDigits) : HexDigits[k] = s[2]
            /\ \E k \in 1..Len(HexDigits) : HexDigits[k] = s[3]
         THEN <<HexVal(s[2]) * 16 + HexVal(s[3])>> \o PercentBytes(SubSeq(s, 4, Len(s)))
         ELSE <<IF Head(s) \in DOMAIN AsciiCode THEN AsciiCode[Head(s)] ELSE 63>>
              \o PercentBytes(Tail(s))

IsCont(b) == b >= 128 /\ b <= 191

\* UTF-8 validation and decoding of a byte string: [ok, s]
RECURSIVE Utf8Decode(_)
Utf8Decode(bs) ==
    IF bs = <<>> THEN [ok |-> TRUE, s |-> <<>>]
    ELSE
    LET b == bs[1]
        n == CASE b < 128 -> 1
               [] b >= 194 /\ b <= 223 -> 2
               [] b >= 224 /\ b <= 239 -> 3
               [] b >= 240 /\ b <= 244 -> 4
               [] OTHER -> 0
        wellFormed ==
            /\ n > 0
            /\ Len(bs) >= n
            /\ \A k \in 2..n : IsCont(bs[k])
            /\ (b = 224 => bs[2] >= 160)
            /\ (b = 237 => bs[2] <= 159)
            /\ (b = 240 => bs[2] >= 144)
            /\ (b = 244 => bs[2] <= 143)
    IN  IF ~wellFormed THEN [ok |-> FALSE, s |-> <<>>]
        ELSE
        LET cp == CASE n = 1 -> b
                    [] n = 2 -> (b - 192) * 64 + (bs[2] - 128)
                    [] n = 3 -> (b - 224) * 4096 + (bs[2] - 128) * 64 + (bs[3] - 128)
                    [] n = 4 -> (b - 240) * 262144 + (bs[2] - 128) * 4096
                                + (bs[3] - 128) * 64 + (bs[4] - 128)
            rest == Utf8Decode(SubSeq(bs, n + 1, Len(bs)))
        IN  IF rest.ok
            THEN [ok |-> TRUE, s |-> <<IF n = 1 THEN AsciiChr(cp) ELSE "U+" \o ToString(cp)>> \o rest.s]
            ELSE rest

\* percent-decode a path segment, with UTF-8 validation: [ok, s]
path_unescape(s) == Utf8Decode(PercentBytes(s))

\* the logical anchor name of a raw fragment: percent-decoding with UTF-8 validation.
\* [ok, some, s]: Err(Utf8Error) / Ok(None) / Ok(Some(s))
fragment_to_anchor(fragment) ==
    LET d == path_unescape(fragment)
    IN  [ok |-> d.ok, some |-> d.ok, s |-> d.s]

----------------------------------------------------------------------------
(* url::Url: a parsed URL and RFC 3986 reference resolution (Url::join).   *)
(* A URL is [scheme, host, path, fragment, opaque]: path is the sequence   *)
(* of segments after the leading '/', an opaque (cannot-be-a-base) URL     *)
(* keeps its whole path as one segment, fragment is None or Some(text).    *)
(* Ports, user info and queries are left inside host and segments.         *)

Url(scheme, host, path, fragment) ==
    [scheme |-> scheme, host |-> host, path |-> path, fragment |-> fragment, opaque |-> FALSE]

OpaqueUrl(scheme, rest) ==
    [scheme |-> scheme, host |-> <<>>, path |-> <<rest>>, fragment |-> None, opaque |-> TRUE]

JoinErr == [ok |-> FALSE]
JoinOk(u) == [ok |-> TRUE, url |-> u]

SpecialSchemes == {<<"h","t","t","p">>, <<"h","t","t","p","s">>}

IsAlpha(c) ==
    /\ c \in DOMAIN AsciiCode
    /\ \/ AsciiCode[c] >= 97 /\ AsciiCode[c] <= 122
       \/ AsciiCode[c] >= 65 /\ AsciiCode[c] <= 90

IsDigit(c) == c \in DOMAIN AsciiCode /\ AsciiCode[c] >= 48 /\ AsciiCode[c] <= 57

\* the length of the scheme that starts the reference, 0 when it has none
SchemeLen(r) ==
    LET i == Find(r, ":")
    IN  IF /\ i > 1
           /\ IsAlpha(r[1])
           /\ \A k \in 1..(i - 1) : IsAlpha(r[k]) \/ IsDigit(r[k]) \/ r[k] \in {"+", "-", "."}
        THEN i - 1
        ELSE 0

ForbiddenHostChars == {" ", "#", "<", ">", "[", "]", "^", "|", "%", "?", "@"}

\* remove_dot_segments: ".." drops the last segment, "." is skipped,
\* and either one in last place leaves an empty last segment
RECURSIVE RemoveDots(_, _)
RemoveDots(inp, out) ==
    IF inp = <<>> THEN out
    ELSE
    LET s == Head(inp)
        trailing == IF Len(inp) = 1 THEN <<<<>>>> ELSE <<>>
    IN  CASE s = <<".",".">> ->
                RemoveDots(Tail(inp),
                           (IF out = <<>> THEN <<>> ELSE SubSeq(out, 1, Len(out) - 1)) \o trailing)
          [] s = <<".">> -> RemoveDots(Tail(inp), out \o trailing)
          [] OTHER -> RemoveDots(Tail(inp), out \o <<s>>)

\* the segments of an absolute path string ("" and "/" are the root path)
ParsePath(p) ==
    IF p = <<>> THEN <<<<>>>> ELSE RemoveDots(SplitOn(Tail(p), "/"), <<>>)

\* "host/path..." after the "//" of a reference
Authority(scheme, s) ==
    LET j == Find(s, "/")
        host == IF j = 0 THEN s ELSE SubSeq(s, 1, j - 1)
        p == IF j = 0 THEN <<>> ELSE SubSeq(s, j, Len(s))
    IN  IF scheme \in SpecialSchemes
           /\ (host = <<>> \/ \E k \in 1..Len(host) : host[k] \in ForbiddenHostChars)
        THEN JoinErr
        ELSE JoinOk(Url(scheme, host, ParsePath(p), None))

\* a reference without scheme, resolved against base
Relative(base, r) ==
    IF base.opaque THEN JoinErr
    ELSE IF r = <<>> THEN JoinOk([base EXCEPT !.fragment = None])
    ELSE IF StartsWith(r, <<"/","/">>) THEN Authority(base.scheme, SubSeq(r, 3, Len(r)))
    ELSE IF StartsWith(r, <<"/">>) THEN JoinOk([base EXCEPT !.path = ParsePath(r), !.fragment = None])
    ELSE JoinOk([base EXCEPT
                   !.path = RemoveDots(SubSeq(base.path, 1, Len(base.path) - 1) \o SplitOn(r, "/"), <<>>),
                   !.fragment = None])

\* Url::join on a reference that carries no fragment: Ok(url) or Err(ParseError)
Join(base, r) ==
    LET n == SchemeLen(r)
        scheme == SubSeq(r, 1, n)
        rest == SubSeq(r, n + 2, Len(r))
    IN  IF n = 0 THEN Relative(base, r)
        ELSE IF scheme \in SpecialSchemes THEN
            (IF StartsWith(rest, <<"/","/">>) THEN Authority(scheme, SubSeq(rest, 3, Len(rest)))
             ELSE IF scheme = base.scheme THEN Relative(base, rest)
             ELSE Authority(scheme, IF StartsWith(rest, <<"/">>) THEN Tail(rest) ELSE rest))
        ELSE IF StartsWith(rest, <<"/","/">>) THEN Authority(scheme, SubSeq(rest, 3, Len(rest)))
        ELSE IF StartsWith(rest, <<"/">>) THEN JoinOk(Url(scheme, <<>>, ParsePath(rest), None))
        ELSE JoinOk(OpaqueUrl(scheme, rest))

\* Resource::new(url): the resource identified by url
Resource(url) == [id |-> url]

----------------------------------------------------------------------------
(* serde_json::Value *)

JBool(b) == [t |-> "bool", b |-> b]
JNum(n) == [t |-> "num", n |-> n]
JStr(s) == [t |-> "str", s |-> s]
JArr(a) == [t |-> "arr", a |-> a]
JObj(o) == [t |-> "obj", o |-> o]
NoProps == [k \in {} |-> JBool(TRUE)]

\* obj.get(k) is Some(Value::String(_))
IsStringAt(obj, k) == k \in DOMAIN obj /\ obj[k].t = "str"

\* s < t in the byte order of str
RECURSIVE StrLess(_, _)
StrLess(s, t) ==
    CASE t = <<>> -> FALSE
      [] s = <<>> -> TRUE
      [] Head(s) = Head(t) -> StrLess(Tail(s), Tail(t))
      [] OTHER -> AsciiCode[Head(s)] < AsciiCode[Head(t)]

\* the keys of a serde_json::Map in its iteration order (a BTreeMap: ascending)
RECURSIVE SortedKeys(_)
SortedKeys(ks) ==
    IF ks = {} THEN <<>>
    ELSE LET m == CHOOSE k \in ks : \A x \in ks \ {k} : StrLess(k, x)
         IN  <<m>> \o SortedKeys(ks \ {m})

----------------------------------------------------------------------------
(* The dialect registry *)

POS_SELF == 1
POS_PROP == 2
POS_ITEM == 4

PosFlags == {POS_SELF, POS_PROP, POS_ITEM}

\* pos & flag != 0
HasPos(pos, flag) == (pos \div flag) % 2 = 1

\* a | b on the three flag bits
BitOr(a, b) ==
    (IF HasPos(a, POS_SELF) \/ HasPos(b, POS_SELF) THEN POS_SELF ELSE 0)
    + (IF HasPos(a, POS_PROP) \/ HasPos(b, POS_PROP) THEN POS_PROP ELSE 0)
    + (IF HasPos(a, POS_ITEM) \/ HasPos(b, POS_ITEM) THEN POS_ITEM ELSE 0)

\* HashMap::extend: an entry of e replaces the entry of m with the same key
Extend(m, e) == [k \in DOMAIN m \cup DOMAIN e |-> IF k \in DOMAIN e THEN e[k] ELSE m[k]]

DRAFT4 ==
    [version |-> 4,
     id |-> <<"i","d">>,
     bool_schema |-> FALSE,
     subschemas |->
        (<<"d","e","f","i","n","i","t","i","o","n","s">> :> POS_PROP) @@
        (<<"n","o","t">> :> POS_SELF) @@
        (<<"a","l","l","O","f">> :> POS_ITEM) @@
        (<<"a","n","y","O","f">> :> POS_ITEM) @@
        (<<"o","n","e","O","f">> :> POS_ITEM) @@
        (<<"p","r","o","p","e","r","t","i","e","s">> :> POS_PROP) @@
        (<<"a","d","d","i","t","i","o","n","a","l","P","r","o","p","e","r","t","i","e","s">> :> POS_SELF) @@
        (<<"p","a","t","t","e","r","n","P","r","o","p","e","r","t","i","e","s">> :> POS_PROP) @@
        (<<"i","t","e","m","s">> :> BitOr(POS_SELF, POS_ITEM)) @@
        (<<"a","d","d","i","t","i","o","n","a","l","I","t","e","m","s">> :> POS_SELF) @@
        (<<"d","e","p","e","n","d","e","n","c","i","e","s">> :> POS_PROP)]

DRAFT6 ==
    [version |-> 6,
     id |-> <<"$","i","d">>,
     bool_schema |-> TRUE,
     subschemas |->
        Extend(DRAFT4.subschemas,
               (<<"p","r","o","p","e","r","t","y","N","a","m","e","s">> :> POS_SELF) @@ (<<"c","o","n","t","a","i","n","s">> :> POS_SELF))]

DRAFT7 ==
    [version |-> 7,
     id |-> <<"$","i","d">>,
     bool_schema |-> TRUE,
     subschemas |->
        Extend(DRAFT6.subschemas,
               (<<"i","f">> :> POS_SELF) @@ (<<"t","h","e","n">> :> POS_SELF) @@ (<<"e","l","s","e">> :> POS_SELF))]

DRAFT2019_from_draft6 ==
    [version |-> 2019,
     id |-> <<"$","i","d">>,
     bool_schema |-> TRUE,
     subschemas |->
        Extend(DRAFT6.subschemas,
               (<<"$","d","e","f","s">> :> POS_PROP) @@
               (<<"d","e","p","e","n","d","e","n","t","S","c","h","e","m","a","s">> :> POS_PROP) @@
               (<<"u","n","e","v","a","l","u","a","t","e","d","P","r","o","p","e","r","t","i","e","s">> :> POS_SELF) @@
               (<<"u","n","e","v","a","l","u","a","t","e","d","I","t","e","m","s">> :> POS_SELF))]

DRAFT2019 ==
    [version |-> 2019,
     id |-> <<"$","i","d">>,
     bool_schema |-> TRUE,
     subschemas |->
        Extend(DRAFT7.subschemas,
               (<<"$","d","e","f","s">> :> POS_PROP) @@
               (<<"d","e","p","e","n","d","e","n","t","S","c","h","e","m","a","s">> :> POS_PROP) @@
               (<<"u","n","e","v","a","l","u","a","t","e","d","P","r","o","p","e","r","t","i","e","s">> :> POS_SELF) @@
               (<<"u","n","e","v","a","l","u","a","t","e","d","I","t","e","m","s">> :> POS_SELF))]

DRAFT2020 ==
    [version |-> 2020,
     id |-> <<"$","i","d">>,
     bool_schema |-> TRUE,
     subschemas |-> Extend(DRAFT2019.subschemas, (<<"p","r","e","f","i","x","I","t","e","m","s">> :> POS_ITEM))]

latest == DRAFT2020

Drafts == {DRAFT4, DRAFT6, DRAFT7, DRAFT2019, DRAFT2020}

----------------------------------------------------------------------------
(* Draft::from_url *)

from_url(url0) ==
    LET fragment == split(url0)[2]
        url1 == StripPrefix(url0, <<"h","t","t","p",":","/","/">>)
        url2 == StripPrefix(url1, <<"h","t","t","p","s",":","/","/">>)
        url == path_unescape(url2)
    IN  IF fragment # <<>> THEN None
        ELSE IF ~url.ok THEN None
        ELSE CASE url.s = <<"j","s","o","n","-","s","c","h","e","m","a",".","o","r","g","/","s","c","h","e","m","a">> -> Some(latest)
               [] url.s = <<"j","s","o","n","-","s","c","h","e","m","a",".","o","r","g","/","d","r","a","f","t","/","2","0","2","0","-","1","2","/","s","c","h","e","m","a">> -> Some(DRAFT2020)
               [] url.s = <<"j","s","o","n","-","s","c","h","e","m","a",".","o","r","g","/","d","r","a","f","t","/","2","0","1","9","-","0","9","/","s","c","h","e","m","a">> -> Some(DRAFT2019)
               [] url.s = <<"j","s","o","n","-","s","c","h","e","m","a",".","o","r","g","/","d","r","a","f","t","-","0","7","/","s","c","h","e","m","a">> -> Some(DRAFT7)
               [] url.s = <<"j","s","o","n","-","s","c","h","e","m","a",".","o","r","g","/","d","r","a","f","t","-","0","6","/","s","c","h","e","m","a">> -> Some(DRAFT6)
               [] url.s = <<"j","s","o","n","-","s","c","h","e","m","a",".","o","r","g","/","d","r","a","f","t","-","0","4","/","s","c","h","e","m","a">> -> Some(DRAFT4)
               [] OTHER -> None

----------------------------------------------------------------------------
(* Draft::has_anchor: Ok(TRUE) / Ok(FALSE) / Err(Utf8Error) *)

AnchorOk(b) == [ok |-> TRUE, v |-> b]
AnchorErr == [ok |-> FALSE]

\* has_anchor without the $dynamicAnchor check of lines 145-151
has_anchor_no_dynamic(draft, json, anchor) ==
    IF json.t # "obj" THEN AnchorOk(FALSE)
    ELSE
    LET obj == json.o
        got == fragment_to_anchor(split(obj[draft.id].s)[2])
    IN  IF draft.version < 2019 /\ IsStringAt(obj, draft.id)
        THEN (IF ~got.ok THEN AnchorErr
              ELSE IF ~got.some THEN AnchorOk(FALSE)
              ELSE AnchorOk(got.s = anchor))
        ELSE IF draft.version >= 2019 /\ IsStringAt(obj, <<"$","a","n","c","h","o","r">>) /\ obj[<<"$","a","n","c","h","o","r">>].s = anchor
             THEN AnchorOk(TRUE)
        ELSE AnchorOk(FALSE)

has_anchor(draft, json, anchor) ==
    IF json.t # "obj" THEN AnchorOk(FALSE)
    ELSE
    LET obj == json.o
        got == fragment_to_anchor(split(obj[draft.id].s)[2])
    IN  IF draft.version < 2019 /\ IsStringAt(obj, draft.id)
        THEN (IF ~got.ok THEN AnchorErr
              ELSE IF ~got.some THEN AnchorOk(FALSE)
              ELSE AnchorOk(got.s = anchor))
        ELSE IF draft.version >= 2019 /\ IsStringAt(obj, <<"$","a","n","c","h","o","r">>) /\ obj[<<"$","a","n","c","h","o","r">>].s = anchor
             THEN AnchorOk(TRUE)
        ELSE IF draft.version >= 2019 /\ IsStringAt(obj, <<"$","d","y","n","a","m","i","c","A","n","c","h","o","r">>)
                /\ obj[<<"$","d","y","n","a","m","i","c","A","n","c","h","o","r">>].s = anchor
             THEN AnchorOk(TRUE)
        ELSE AnchorOk(FALSE)

----------------------------------------------------------------------------
(* Draft::collect_resources.                                               *)
(*                                                                         *)
(* One frame of the call stack is one call: [json, base, ptr] are the      *)
(* arguments (base becomes the Cow of line 167 once the identifier is      *)
(* handled), pc is the position in the body, ki the position in the        *)
(* iteration of self.subschemas and i the position in the array or the     *)
(* property map of lines 190 and 198.                                      *)

Ok == [ok |-> TRUE]
Err(ptr) == [ok |-> FALSE, ptr |-> ptr]

Frame(json, base, ptr) ==
    [json |-> json, base |-> base, ptr |-> ptr, pc |-> "enter", ki |-> 0, i |-> 0]

Top == stack[Len(stack)]
Callers == SubSeq(stack, 1, Len(stack) - 1)

Running == stack # <<>> /\ result = None
Done == stack = <<>> /\ result # None
Failed == result # None /\ ~result.v.ok

\* lines 167-178 with the Cow left borrowed: the children get the caller's base
IdStep_base_not_updated(draft, obj, base, ptr, res) ==
    IF IsStringAt(obj, draft.id)
    THEN LET obj_id == Join(base, split(obj[draft.id].s)[1])
         IN  IF ~obj_id.ok
             THEN [err |-> TRUE, base |-> base, resources |-> res]
             ELSE [err |-> FALSE, base |-> base,
                   resources |-> Extend(res, ptr :> Resource(obj_id.url))]
    ELSE IF ptr = <<>>
         THEN [err |-> FALSE, base |-> base, resources |-> Extend(res, ptr :> Resource(base))]
         ELSE [err |-> FALSE, base |-> base, resources |-> res]

\* lines 167-178 without the ptr.is_empty() test: every object is recorded
IdStep_every_object(draft, obj, base, ptr, res) ==
    IF IsStringAt(obj, draft.id)
    THEN LET obj_id == Join(base, split(obj[draft.id].s)[1])
         IN  IF ~obj_id.ok
             THEN [err |-> TRUE, base |-> base, resources |-> res]
             ELSE [err |-> FALSE, base |-> obj_id.url,
                   resources |-> Extend(res, ptr :> Resource(obj_id.url))]
    ELSE [err |-> FALSE, base |-> base, resources |-> Extend(res, ptr :> Resource(base))]

\* lines 167-178: the identifier of an object node.
\* err: the function returns Err(ptr); base: the base of the children; resources: the map
IdStep(draft, obj, base, ptr, res) ==
    IF IsStringAt(obj, draft.id)
    THEN LET obj_id == Join(base, split(obj[draft.id].s)[1])
         IN  IF ~obj_id.ok
             THEN [err |-> TRUE, base |-> base, resources |-> res]
             ELSE [err |-> FALSE, base |-> obj_id.url,
                   resources |-> Extend(res, ptr :> Resource(obj_id.url))]
    ELSE IF ptr = <<>>
         THEN [err |-> FALSE, base |-> base, resources |-> Extend(res, ptr :> Resource(base))]
         ELSE [err |-> FALSE, base |-> base, resources |-> res]

\* line 185: format!("{ptr}/{kw}")
SelfPtr(ptr, kw) == ptr \o <<"/">> \o kw

\* line 191 without the index
ItemPtr_no_index(ptr, kw, i) == ptr \o <<"/">> \o kw

\* line 191: format!("{ptr}/{kw}/{i}")
ItemPtr(ptr, kw, i) == ptr \o <<"/">> \o kw \o <<"/">> \o Decimal(i)

\* line 199: format!("{ptr}/{kw}/{}", escape(pname))
PropPtr(ptr, kw, pname) == ptr \o <<"/">> \o kw \o <<"/">> \o escape(pname)

\* the ? of lines 186, 192, 200 dropped: the caller goes on after an Err
Question_error_dropped(r, callers) == <<None, callers>>

\* the ? of lines 186, 192, 200 on Err: the caller returns the same Err at once
Question(r, callers) == <<r, SubSeq(callers, 1, Len(callers) - 1)>>

\* the callee returned r: the outermost call's result, or the callers go on
Return(r) ==
    /\ stack' = Callers
    /\ result' = IF Callers = <<>> \/ ~r.ok THEN Some(r) ELSE None

\* lines 163-178
Enter ==
    /\ Running
    /\ Top.pc = "enter"
    /\ IF Top.json.t # "obj"
       THEN Return(Ok) /\ UNCHANGED resources
       ELSE LET r == IdStep(self, Top.json.o, Top.base, Top.ptr, resources)
            IN  IF r.err
                THEN Return(Err(Top.ptr)) /\ UNCHANGED resources
                ELSE /\ resources' = r.resources
                     /\ stack' = Callers \o <<[Top EXCEPT !.base = r.base, !.pc = "loop", !.ki = 1]>>
                     /\ UNCHANGED result
    /\ UNCHANGED <<self, doc, base0, order, fu_in, fu_out, ha_in, ha_out>>

\* lines 180-183 and 205: the next entry of self.subschemas
Loop ==
    /\ Running
    /\ Top.pc = "loop"
    /\ IF Top.ki > Len(order)
       THEN Return(Ok)
       ELSE /\ stack' = Callers \o
                    <<IF order[Top.ki] \in DOMAIN Top.json.o
                      THEN [Top EXCEPT !.pc = "self"]
                      ELSE [Top EXCEPT !.ki = Top.ki + 1]>>
            /\ UNCHANGED result
    /\ UNCHANGED <<self, doc, base0, order, resources, fu_in, fu_out, ha_in, ha_out>>

\* lines 184-187
Self ==
    /\ Running
    /\ Top.pc = "self"
    /\ LET kw == order[Top.ki]
           v == Top.json.o[kw]
           next == [Top EXCEPT !.pc = "item", !.i = 0]
       IN  stack' = Callers \o <<next>> \o
                (IF HasPos(self.subschemas[kw], POS_SELF)
                 THEN <<Frame(v, Top.base, SelfPtr(Top.ptr, kw))>>
                 ELSE <<>>)
    /\ UNCHANGED <<self, doc, base0, order, resources, result, fu_in, fu_out, ha_in, ha_out>>

\* lines 188-195
Item ==
    /\ Running
    /\ Top.pc = "item"
    /\ LET kw == order[Top.ki]
           v == Top.json.o[kw]
       IN  IF HasPos(self.subschemas[kw], POS_ITEM) /\ v.t = "arr" /\ Top.i < Len(v.a)
           THEN stack' = Callers \o <<[Top EXCEPT !.i = Top.i + 1]>> \o
                    <<Frame(v.a[Top.i + 1], Top.base, ItemPtr(Top.ptr, kw, Top.i))>>
           ELSE stack' = Callers \o <<[Top EXCEPT !.pc = "prop", !.i = 0]>>
    /\ UNCHANGED <<self, doc, base0, order, resources, result, fu_in, fu_out, ha_in, ha_out>>

\* lines 196-203
Prop ==
    /\ Running
    /\ Top.pc = "prop"
    /\ LET kw == order[Top.ki]
           v == Top.json.o[kw]
       IN  IF HasPos(self.subschemas[kw], POS_PROP) /\ v.t = "obj"
              /\ Top.i < Cardinality(DOMAIN v.o)
           THEN LET pname == SortedKeys(DOMAIN v.o)[Top.i + 1]
                IN  stack' = Callers \o <<[Top EXCEPT !.i = Top.i + 1]>> \o
                        <<Frame(v.o[pname], Top.base, PropPtr(Top.ptr, kw, pname))>>
           ELSE stack' = Callers \o <<[Top EXCEPT !.pc = "loop", !.ki = Top.ki + 1]>>
    /\ UNCHANGED <<self, doc, base0, order, resources, result, fu_in, fu_out, ha_in, ha_out>>

\* the ? of lines 186, 192, 200 when the callee returned Err
Propagate ==
    /\ stack # <<>>
    /\ Failed
    /\ LET q == Question(result, stack)
       IN  result' = q[1] /\ stack' = q[2]
    /\ UNCHANGED <<self, doc, base0, order, resources, fu_in, fu_out, ha_in, ha_out>>

----------------------------------------------------------------------------
(* Inputs of collect_resources *)

\* the length of the tuple-form items array of the documents
MaxItems == 2

\* the keywords the documents use; every other entry of self.subschemas is
\* absent from every node and passes through the continue of line 182
DocKeywords == {<<"d","e","f","i","n","i","t","i","o","n","s">>, <<"i","t","e","m","s">>}

RECURSIVE Perms(_)
Perms(ks) ==
    IF ks = {} THEN {<<>>}
    ELSE UNION {{<<k>> \o p : p \in Perms(ks \ {k})} : k \in ks}

\* the orders in which the HashMap can yield the entries the documents use
Orders(draft) == Perms(DOMAIN draft.subschemas \cap DocKeywords)

IdAbsolute == <<"h","t","t","p",":","/","/","a",".","c","o","m","/","s","c","h","e","m","a","s","/","s","c","h","e","m","a",".","j","s","o","n">>
IdOpaque == <<"u","r","n",":","x">>
IdParent == <<".",".","/","s","2">>
IdSibling == <<"s","3">>
IdFragment == <<"h","t","t","p",":","/","/","e",".","c","o","m","/","d","e","f","#","a","b","c","d">>
IdNoHost == <<"/","/">>

OtherIdKey(idk) == IF idk = <<"i","d">> THEN <<"$","i","d">> ELSE <<"i","d">>

RootIds(idk) == {NoProps, idk :> JStr(IdAbsolute), idk :> JStr(IdOpaque)}
DefIds(idk) == {NoProps, idk :> JStr(IdParent), OtherIdKey(idk) :> JStr(IdAbsolute)}
ElemIds(idk) == {NoProps, idk :> JStr(IdFragment), idk :> JStr(IdNoHost)}
DeepIds(idk) == {NoProps, idk :> JStr(IdSibling), idk :> JNum(1)}
ItemsIds(idk) == {NoProps, idk :> JStr(IdParent), idk :> JStr(IdNoHost)}

\* the document with the given identifier properties at its five schema nodes
Document(idk, root, def, elem, deep, items) ==
    JObj(root @@
         (<<"d","e","f","i","n","i","t","i","o","n","s">> :>
            JObj((<<"s">> :>
                    JObj(def @@
                         (<<"i","t","e","m","s">> :>
                            JArr([n \in 1..MaxItems |->
                                    IF n % 2 = 1 THEN JObj(elem) ELSE JBool(TRUE)])))) @@
                 (<<"a","/","b">> :> JObj(<<"i","t","e","m","s">> :> JObj(deep))) @@
                 (<<"m","~","n">> :> JBool(FALSE)))) @@
         (<<"i","t","e","m","s">> :> JObj(items)) @@
         (<<"d","e","f","a","u","l","t">> :> JObj(idk :> JStr(IdAbsolute))))

Documents(idk) ==
    {Document(idk, root, def, elem, deep, items) :
        root \in RootIds(idk), def \in DefIds(idk), elem \in ElemIds(idk),
        deep \in DeepIds(idk), items \in ItemsIds(idk)}
    \cup {JBool(TRUE), JArr(<<JObj(idk :> JStr(IdAbsolute))>>)}

\* Url::parse("http://a.com/schema.json") and the same with a fragment
Bases ==
    {Url(<<"h","t","t","p">>, <<"a",".","c","o","m">>, <<<<"s","c","h","e","m","a",".","j","s","o","n">>>>, None),
     Url(<<"h","t","t","p">>, <<"a",".","c","o","m">>, <<<<"s","c","h","e","m","a",".","j","s","o","n">>>>, Some(<<"t","o","p">>))}

NoResources == [p \in {} |-> Resource(Url(<<>>, <<>>, <<>>, None))]

----------------------------------------------------------------------------
(* Inputs of from_url *)

UrlPrefixes == {<<>>, <<"h","t","t","p",":","/","/">>, <<"h","t","t","p","s",":","/","/">>, <<"h","t","t","p",":","/","/","h","t","t","p","s",":","/","/">>, <<"f","t","p",":","/","/">>}

UrlBodies ==
    {<<"j","s","o","n","-","s","c","h","e","m","a",".","o","r","g","/","s","c","h","e","m","a">>,
     <<"j","s","o","n","-","s","c","h","e","m","a",".","o","r","g","/","d","r","a","f","t","/","2","0","2","0","-","1","2","/","s","c","h","e","m","a">>,
     <<"j","s","o","n","-","s","c","h","e","m","a",".","o","r","g","/","d","r","a","f","t","/","2","0","1","9","-","0","9","/","s","c","h","e","m","a">>,
     <<"j","s","o","n","-","s","c","h","e","m","a",".","o","r","g","/","d","r","a","f","t","-","0","7","/","s","c","h","e","m","a">>,
     <<"j","s","o","n","-","s","c","h","e","m","a",".","o","r","g","/","d","r","a","f","t","-","0","6","/","s","c","h","e","m","a">>,
     <<"j","s","o","n","-","s","c","h","e","m","a",".","o","r","g","/","d","r","a","f","t","-","0","4","/","s","c","h","e","m","a">>,
     <<"j","s","o","n","-","s","c","h","e","m","a",".","o","r","g","/","%","6","4","r","a","f","t","/","2","0","2","0","-","1","2","/","s","c","h","e","m","a">>,
     <<"j","s","o","n","-","s","c","h","e","m","a",".","o","r","g","/","d","r","a","f","t","-","0","%","3","7","/","s","c","h","e","m","a">>,
     <<"j","s","o","n","-","s","c","h","e","m","a",".","o","r","g","/","d","r","a","f","t","-","0","5","/","s","c","h","e","m","a">>,
     <<"j","s","o","n","-","s","c","h","e","m","a",".","o","r","g","/","d","r","a","f","t","-","0","4","/","s","c","h","e","m","%","F","F">>,
     <<"j","s","o","n","-","s","c","h","e","m","a",".","o","r","g","/","d","r","a","f","t","-","0","4","/","s","c","h","e","m","a","%","2">>}

UrlFragments == {<<>>, <<"#">>, <<"#","a">>, <<"#","/","d","e","f","i","n","i","t","i","o","n","s","/","a">>}

FromUrlInputs == {p \o b \o f : p \in UrlPrefixes, b \in UrlBodies, f \in UrlFragments}

----------------------------------------------------------------------------
(* Inputs of has_anchor *)

AnchorNames == {<<"f","o","o">>, <<"b","a","r">>, <<>>}

AnchorNodes ==
    {JBool(TRUE),
     JStr(<<"#","f","o","o">>),
     JObj(NoProps),
     JObj(<<"i","d">> :> JStr(<<"h","t","t","p",":","/","/","a",".","c","o","m","/","x","#","f","o","o">>)),
     JObj(<<"i","d">> :> JStr(<<"#","f","%","6","F","o">>)),
     JObj(<<"i","d">> :> JStr(<<"#","b","%","F","F","r">>)),
     JObj(<<"i","d">> :> JStr(<<"h","t","t","p",":","/","/","a",".","c","o","m","/","x">>)),
     JObj(<<"i","d">> :> JNum(1)),
     JObj(<<"$","i","d">> :> JStr(<<"#","b","a","r">>)),
     JObj(<<"$","i","d">> :> JStr(<<"#","%","C","3","%","2","8">>)),
     JObj((<<"$","i","d">> :> JStr(<<"#","f","o","o">>)) @@ (<<"$","a","n","c","h","o","r">> :> JStr(<<"b","a","r">>))),
     JObj((<<"i","d">> :> JStr(<<"#","f","o","o">>)) @@ (<<"$","d","y","n","a","m","i","c","A","n","c","h","o","r">> :> JStr(<<"b","a","r">>))),
     JObj(<<"$","a","n","c","h","o","r">> :> JStr(<<"f","o","o">>)),
     JObj(<<"$","a","n","c","h","o","r">> :> JNum(1)),
     JObj(<<"$","d","y","n","a","m","i","c","A","n","c","h","o","r">> :> JStr(<<"f","o","o">>)),
     JObj((<<"$","a","n","c","h","o","r">> :> JStr(<<"f","o","o">>)) @@ (<<"$","d","y","n","a","m","i","c","A","n","c","h","o","r">> :> JStr(<<"b","a","r">>))),
     JObj((<<"$","a","n","c","h","o","r">> :> JNum(1)) @@ (<<"$","d","y","n","a","m","i","c","A","n","c","h","o","r">> :> JStr(<<"b","a","r">>))),
     JObj((<<"$","i","d">> :> JStr(<<"#","b","%","F","F","r">>)) @@ (<<"$","a","n","c","h","o","r">> :> JStr(<<"f","o","o">>)))}

----------------------------------------------------------------------------
(* Specifications *)

CollectIdle ==
    /\ self = DRAFT4
    /\ doc = JBool(TRUE)
    /\ base0 = Url(<<>>, <<>>, <<>>, None)
    /\ order = <<>>
    /\ stack = <<>>
    /\ resources = NoResources
    /\ result = None

FromUrlIdle == fu_in = <<>> /\ fu_out = None

HasAnchorIdle == ha_in = <<>> /\ ha_out = None

\* a caller has just called collect_resources(doc, base0, String::new(), &mut HashMap::new())
Init ==
    /\ self \in Drafts
    /\ doc \in Documents(self.id)
    /\ base0 \in Bases
    /\ order \in Orders(self)
    /\ stack = <<Frame(doc, base0, <<>>)>>
    /\ resources = NoResources
    /\ result = None
    /\ FromUrlIdle
    /\ HasAnchorIdle

Next == Enter \/ Loop \/ Self \/ Item \/ Prop \/ Propagate

Spec == Init /\ [][Next]_vars

InitFromUrl ==
    /\ fu_in \in FromUrlInputs
    /\ fu_out = None
    /\ CollectIdle
    /\ HasAnchorIdle

CallFromUrl ==
    /\ fu_out = None
    /\ fu_in # <<>>
    /\ fu_out' = Some(from_url(fu_in))
    /\ UNCHANGED <<self, doc, base0, order, stack, resources, result, fu_in, ha_in, ha_out>>

SpecFromUrl == InitFromUrl /\ [][CallFromUrl]_vars

InitHasAnchor ==
    /\ ha_in \in Drafts \X AnchorNodes \X AnchorNames
    /\ ha_out = None
    /\ CollectIdle
    /\ FromUrlIdle

CallHasAnchor ==
    /\ ha_out = None
    /\ ha_in # <<>>
    /\ ha_out' = Some(has_anchor(ha_in[1], ha_in[2], ha_in[3]))
    /\ UNCHANGED <<self, doc, base0, order, stack, resources, result, fu_in, fu_out, ha_in>>

SpecHasAnchor == InitHasAnchor /\ [][CallHasAnchor]_vars

----------------------------------------------------------------------------
(* collect_resources as a function of the iteration order: the same body,  *)
(* the loops of lines 180-204 as recursions that stop at the first Err.    *)

RECURSIVE collect_resources(_, _, _, _, _, _)
RECURSIVE KeywordLoop(_, _, _, _, _, _, _)
RECURSIVE ItemLoop(_, _, _, _, _, _, _, _)
RECURSIVE PropLoop(_, _, _, _, _, _, _, _)

\* lines 188-195, from element i on
ItemLoop(draft, ord, arr, base, ptr, kw, res, i) ==
    IF i >= Len(arr) THEN [r |-> Ok, resources |-> res]
    ELSE LET c == collect_resources(draft, ord, arr[i + 1], base, ItemPtr(ptr, kw, i), res)
         IN  IF ~c.r.ok THEN c
             ELSE ItemLoop(draft, ord, arr, base, ptr, kw, c.resources, i + 1)

\* lines 196-203, from property i on
PropLoop(draft, ord, props, base, ptr, kw, res, i) ==
    IF i >= Cardinality(DOMAIN props) THEN [r |-> Ok, resources |-> res]
    ELSE LET pname == SortedKeys(DOMAIN props)[i + 1]
             c == collect_resources(draft, ord, props[pname], base, PropPtr(ptr, kw, pname), res)
         IN  IF ~c.r.ok THEN c
             ELSE PropLoop(draft, ord, props, base, ptr, kw, c.resources, i + 1)

\* lines 180-205, from entry ki of the iteration on
KeywordLoop(draft, ord, obj, base, ptr, res, ki) ==
    IF ki > Len(ord) THEN [r |-> Ok, resources |-> res]
    ELSE IF ord[ki] \notin DOMAIN obj THEN KeywordLoop(draft, ord, obj, base, ptr, res, ki + 1)
    ELSE
    LET kw == ord[ki]
        pos == draft.subschemas[kw]
        v == obj[kw]
        a == IF HasPos(pos, POS_SELF)
             THEN collect_resources(draft, ord, v, base, SelfPtr(ptr, kw), res)
             ELSE [r |-> Ok, resources |-> res]
        b == IF HasPos(pos, POS_ITEM) /\ v.t = "arr"
             THEN ItemLoop(draft, ord, v.a, base, ptr, kw, a.resources, 0)
             ELSE a
        c == IF HasPos(pos, POS_PROP) /\ v.t = "obj"
             THEN PropLoop(draft, ord, v.o, base, ptr, kw, b.resources, 0)
             ELSE b
    IN  IF ~a.r.ok THEN a
        ELSE IF ~b.r.ok THEN b
        ELSE IF ~c.r.ok THEN c
        ELSE KeywordLoop(draft, ord, obj, base, ptr, c.resources, ki + 1)

\* lines 156-206
collect_resources(draft, ord, json, base, ptr, res) ==
    IF json.t # "obj" THEN [r |-> Ok, resources |-> res]
    ELSE LET s == IdStep(draft, json.o, base, ptr, res)
         IN  IF s.err THEN [r |-> Err(ptr), resources |-> res]
             ELSE KeywordLoop(draft, ord, json.o, s.base, ptr, s.resources, 1)

\* the stack machine ends as the function does, under the same order
MachineAgrees ==
    Done =>
        [r |-> result.v, resources |-> resources]
            = collect_resources(self, order, doc, base0, <<>>, NoResources)

----------------------------------------------------------------------------
(* JSON Pointer (RFC 6901) evaluation and the schema positions of a        *)
(* dialect, in which the claims are stated.                                *)

\* a reference token with "~1" read as '/' and "~0" as '~'
RECURSIVE Unescape(_)
Unescape(t) ==
    IF t = <<>> THEN <<>>
    ELSE IF Len(t) >= 2 /\ t[1] = "~" /\ t[2] = "1" THEN <<"/">> \o Unescape(SubSeq(t, 3, Len(t)))
    ELSE IF Len(t) >= 2 /\ t[1] = "~" /\ t[2] = "0" THEN <<"~">> \o Unescape(SubSeq(t, 3, Len(t)))
    ELSE <<Head(t)>> \o Unescape(Tail(t))

IsPointer(p) == p = <<>> \/ Head(p) = "/"

\* the reference tokens of a pointer
Tokens(p) ==
    IF p = <<>> THEN <<>>
    ELSE LET raw == SplitOn(Tail(p), "/") IN [k \in 1..Len(raw) |-> Unescape(raw[k])]

\* an array index: digits without a leading zero
IsIndex(t) == t # <<>> /\ (\A k \in 1..Len(t) : IsDigit(t[k])) /\ (Len(t) > 1 => t[1] # "0")

RECURSIVE IndexValue(_)
IndexValue(t) ==
    IF t = <<>> THEN 0
    ELSE IndexValue(SubSeq(t, 1, Len(t) - 1)) * 10 + (AsciiCode[t[Len(t)]] - 48)

NotFound == [ok |-> FALSE]

\* the value the tokens lead to from v
RECURSIVE Walk(_, _)
Walk(v, ts) ==
    IF ts = <<>> THEN [ok |-> TRUE, v |-> v]
    ELSE IF v.t = "obj" /\ Head(ts) \in DOMAIN v.o THEN Walk(v.o[Head(ts)], Tail(ts))
    ELSE IF v.t = "arr" /\ IsIndex(Head(ts)) /\ IndexValue(Head(ts)) < Len(v.a)
         THEN Walk(v.a[IndexValue(Head(ts)) + 1], Tail(ts))
    ELSE NotFound

\* the value of the document at pointer p
Lookup(p) == IF IsPointer(p) THEN Walk(doc, Tokens(p)) ELSE NotFound

\* the tokens lead from schema v to a schema, through the dialect's keyword table
RECURSIVE SchemaPath(_, _, _)
SchemaPath(draft, v, ts) ==
    IF ts = <<>> THEN TRUE
    ELSE
    /\ v.t = "obj"
    /\ Head(ts) \in DOMAIN draft.subschemas
    /\ Head(ts) \in DOMAIN v.o
    /\ LET pos == draft.subschemas[Head(ts)]
           w == v.o[Head(ts)]
           rest == Tail(ts)
       IN  \/ HasPos(pos, POS_SELF) /\ SchemaPath(draft, w, rest)
           \/ /\ HasPos(pos, POS_ITEM)
              /\ w.t = "arr"
              /\ rest # <<>>
              /\ IsIndex(Head(rest))
              /\ IndexValue(Head(rest)) < Len(w.a)
              /\ SchemaPath(draft, w.a[IndexValue(Head(rest)) + 1], Tail(rest))
           \/ /\ HasPos(pos, POS_PROP)
              /\ w.t = "obj"
              /\ rest # <<>>
              /\ Head(rest) \in DOMAIN w.o
              /\ SchemaPath(draft, w.o[Head(rest)], Tail(rest))

\* the pointers of all values of the document below v, which is at p
RECURSIVE PointersBelow(_, _)
PointersBelow(v, p) ==
    {p} \cup
    (IF v.t = "obj"
     THEN UNION {PointersBelow(v.o[k], p \o <<"/">> \o escape(k)) : k \in DOMAIN v.o}
     ELSE IF v.t = "arr"
     THEN UNION {PointersBelow(v.a[n], p \o <<"/">> \o Decimal(n - 1)) : n \in 1..Len(v.a)}
     ELSE {})

AllPointers == PointersBelow(doc, <<>>)

\* p is a schema position of the dialect
SchemaPosition(p) == IsPointer(p) /\ Lookup(p).ok /\ SchemaPath(self, doc, Tokens(p))

\* the node at p declares its own identifier
Declares(p) ==
    /\ SchemaPosition(p)
    /\ Lookup(p).v.t = "obj"
    /\ IsStringAt(Lookup(p).v.o, self.id)

\* the pre-fragment part of the identifier declared at p
DeclaredId(p) == split(Lookup(p).v.o[self.id].s)[1]

\* the pointers of the proper ancestors of p
Ancestors(p) == {SubSeq(p, 1, k - 1) : k \in {n \in 1..Len(p) : p[n] = "/"}}

DeclaringAncestors(p) == {q \in Ancestors(p) : Declares(q)}

Nearest(qs) == CHOOSE q \in qs : \A x \in qs : Len(x) <= Len(q)

\* the identifier declared at p, resolved down the chain of declaring ancestors
\* from the initial base: Ok(url), or Err when a link of the chain does not resolve
RECURSIVE Resolved(_)
Resolved(p) ==
    LET anc == DeclaringAncestors(p)
        b == IF anc = {} THEN JoinOk(base0) ELSE Resolved(Nearest(anc))
    IN  IF b.ok THEN Join(b.url, DeclaredId(p)) ELSE JoinErr

\* the nodes whose identifier does not resolve although every ancestor's does
Unresolvable ==
    {p \in AllPointers :
        /\ Declares(p)
        /\ \A q \in DeclaringAncestors(p) : Resolved(q).ok
        /\ ~Resolved(p).ok}

----------------------------------------------------------------------------
(* Claims *)

\* C1: once collect_resources, called with the empty pointer, has returned,
\* the map holds an entry for the root pointer "", whatever the document.
RootAlwaysPresent == Done => <<>> \in DOMAIN resources

\* C2: after a successful call, every node that declares a string identifier
\* is recorded with that identifier's pre-fragment part resolved against the
\* URL recorded at its nearest declaring proper ancestor, or against the
\* initial base when no ancestor declares one.
IdentifierChaining ==
    (Done /\ ~Failed) =>
        \A p \in AllPointers :
            Declares(p) =>
                LET anc == DeclaringAncestors(p)
                    b == IF anc = {} THEN base0 ELSE resources[Nearest(anc)].id
                    r == Join(b, DeclaredId(p))
                IN  /\ anc \subseteq DOMAIN resources
                    /\ p \in DOMAIN resources
                    /\ r.ok
                    /\ resources[p].id = r.url

\* C2 witness: the root declares http://a.com/schemas/schema.json, the child ../s2
\* is recorded as http://a.com/s2 and the grandchild s3 below a node without
\* identifier as http://a.com/schemas/s3.
ChainingWitness ==
    /\ Done /\ ~Failed
    /\ Declares(<<>>) /\ DeclaredId(<<>>) = IdAbsolute
    /\ <<"/","d","e","f","i","n","i","t","i","o","n","s","/","s">> \in DOMAIN resources
    /\ resources[<<"/","d","e","f","i","n","i","t","i","o","n","s","/","s">>].id = Url(<<"h","t","t","p">>, <<"a",".","c","o","m">>, <<<<"s","2">>>>, None)
    /\ <<"/","d","e","f","i","n","i","t","i","o","n","s","/","a","~","1","b","/","i","t","e","m","s">> \in DOMAIN resources
    /\ resources[<<"/","d","e","f","i","n","i","t","i","o","n","s","/","a","~","1","b","/","i","t","e","m","s">>].id = Url(<<"h","t","t","p">>, <<"a",".","c","o","m">>, <<<<"s","c","h","e","m","a","s">>, <<"s","3">>>>, None)

\* C3: every URL stored in the map is fragment-free, the implicit root entry
\* included, for every initial base URL.
FragmentFree == \A p \in DOMAIN resources : resources[p].id.fragment = None

\* C4: after a successful call a pointer is a key of the map if and only if it
\* is the document root or addresses a node that declares its own identifier,
\* and no key other than the root addresses a non-object node.
MapMembership ==
    (Done /\ ~Failed) =>
        /\ \A p \in AllPointers \cup DOMAIN resources :
              p \in DOMAIN resources <=> (p = <<>> \/ Declares(p))
        /\ \A p \in DOMAIN resources \ {<<>>} : Lookup(p).ok /\ Lookup(p).v.t = "obj"

\* the dialect the claim C5 assigns to a reference
CanonicalDraft ==
    (<<"j","s","o","n","-","s","c","h","e","m","a",".","o","r","g","/","s","c","h","e","m","a">> :> latest) @@
    (<<"j","s","o","n","-","s","c","h","e","m","a",".","o","r","g","/","d","r","a","f","t","/","2","0","2","0","-","1","2","/","s","c","h","e","m","a">> :> DRAFT2020) @@
    (<<"j","s","o","n","-","s","c","h","e","m","a",".","o","r","g","/","d","r","a","f","t","/","2","0","1","9","-","0","9","/","s","c","h","e","m","a">> :> DRAFT2019) @@
    (<<"j","s","o","n","-","s","c","h","e","m","a",".","o","r","g","/","d","r","a","f","t","-","0","7","/","s","c","h","e","m","a">> :> DRAFT7) @@
    (<<"j","s","o","n","-","s","c","h","e","m","a",".","o","r","g","/","d","r","a","f","t","-","0","6","/","s","c","h","e","m","a">> :> DRAFT6) @@
    (<<"j","s","o","n","-","s","c","h","e","m","a",".","o","r","g","/","d","r","a","f","t","-","0","4","/","s","c","h","e","m","a">> :> DRAFT4)

StripOneScheme(s) ==
    IF StartsWith(s, <<"h","t","t","p",":","/","/">>) THEN StripPrefix(s, <<"h","t","t","p",":","/","/">>) ELSE StripPrefix(s, <<"h","t","t","p","s",":","/","/">>)

\* C5: from_url returns dialect D if and only if the fragment is empty and the
\* pre-fragment part, with one leading http:// or https:// stripped and
\* percent-decoded, is the canonical suffix of D; it returns no match otherwise.
FromUrlAsSpecified ==
    fu_out # None =>
        LET pre == split(fu_in)[1]
            fragment == split(fu_in)[2]
            decoded == path_unescape(StripOneScheme(pre))
        IN  fu_out.v = IF fragment = <<>> /\ decoded.ok /\ decoded.s \in DOMAIN CanonicalDraft
                       THEN Some(CanonicalDraft[decoded.s])
                       ELSE None

\* C6: a visited node whose string identifier does not resolve against its base
\* makes the call fail; the failure carries that node's pointer, the node gets
\* no entry, and the map does not change once the failure is detected.
FailureHandling ==
    /\ [](Failed =>
            /\ Declares(result.v.ptr)
            /\ \A q \in DeclaringAncestors(result.v.ptr) : q \in DOMAIN resources
            /\ LET anc == DeclaringAncestors(result.v.ptr)
                   b == IF anc = {} THEN base0 ELSE resources[Nearest(anc)].id
               IN  ~Join(b, DeclaredId(result.v.ptr)).ok
            /\ result.v.ptr \notin DOMAIN resources)
    /\ []((Done /\ Unresolvable # {}) => Failed)
    /\ [][Failed => resources' = resources]_vars

\* C6 witness: the call failed at the first element of a tuple-form items array
\* after other entries were inserted, and the enclosing calls have returned.
FailureWitness ==
    /\ Done /\ Failed
    /\ result.v.ptr = <<"/","d","e","f","i","n","i","t","i","o","n","s","/","s","/","i","t","e","m","s","/","0">>
    /\ Cardinality(DOMAIN resources) >= 2

\* C7: the pointer of every call is the JSON Pointer of the node it visits and
\* every key of the map addresses a schema position; no two calls in progress
\* share a pointer and no call is entered with a pointer the map already holds.
PointerConstruction ==
    /\ \A k \in 1..Len(stack) : Lookup(stack[k].ptr) = [ok |-> TRUE, v |-> stack[k].json]
    /\ \A k, l \in 1..Len(stack) : k # l => stack[k].ptr # stack[l].ptr
    /\ \A p \in DOMAIN resources : SchemaPosition(p)
    /\ (Running /\ Top.pc = "enter") => Top.ptr \notin DOMAIN resources

\* C7 witness: entries under the property a/b (escaped a~1b) and under items
\* are in the map, and the call for the property m~n (escaped m~0n) is entered.
PointerWitness ==
    /\ Running /\ Top.pc = "enter" /\ Top.ptr = <<"/","d","e","f","i","n","i","t","i","o","n","s","/","m","~","0","n">>
    /\ <<"/","d","e","f","i","n","i","t","i","o","n","s","/","a","~","1","b","/","i","t","e","m","s">> \in DOMAIN resources
    /\ <<"/","i","t","e","m","s">> \in DOMAIN resources

TableMonotone ==
    /\ \A d \in Drafts :
          d.version < self.version =>
              \A kw \in DOMAIN d.subschemas :
                  /\ kw \in DOMAIN self.subschemas
                  /\ \A f \in PosFlags :
                        HasPos(d.subschemas[kw], f) => HasPos(self.subschemas[kw], f)
    /\ HasPos(self.subschemas[<<"i","t","e","m","s">>], POS_SELF)
    /\ HasPos(self.subschemas[<<"i","t","e","m","s">>], POS_ITEM)

\* C9 witness: under the 2020 dialect the elements of a tuple-form items array
\* are being visited.
TableWitness ==
    /\ self.version = 2020
    /\ Running /\ Top.pc = "item" /\ order[Top.ki] = <<"i","t","e","m","s">>
    /\ Top.json.o[<<"i","t","e","m","s">>].t = "arr" /\ Top.i = 1

\* the order in which the other orders are compared
CanonicalOrder == SortedKeys(DOMAIN self.subschemas \cap DocKeywords)

\* C10 as stated: the result, the failure pointer and the final map are those
\* of every other iteration order.
OrderIndependent ==
    Done =>
        [r |-> result.v, resources |-> resources]
            = collect_resources(self, CanonicalOrder, doc, base0, <<>>, NoResources)

\* C10 amended: whether the call fails does not depend on the order (it fails
\* exactly when some node's identifier does not resolve), and neither does the
\* map of a successful call (the root object and the declaring nodes, each
\* with its identifier resolved down its ancestors); a failure reports one of
\* the unresolvable nodes.
OrderIndependentOnSuccess ==
    Done =>
        /\ Failed <=> Unresolvable # {}
        /\ Failed => result.v.ptr \in Unresolvable
        /\ ~Failed =>
              /\ DOMAIN resources = {p \in AllPointers : Declares(p) \/ (p = <<>> /\ doc.t = "obj")}
              /\ \A p \in DOMAIN resources :
                    resources[p] = Resource(IF Declares(p) THEN Resolved(p).url ELSE base0)

\* C10 witness: a successful call that iterated items before definitions and
\* recorded nodes below both.
OrderWitness ==
    /\ Done /\ ~Failed
    /\ order = <<<<"i","t","e","m","s">>, <<"d","e","f","i","n","i","t","i","o","n","s">>>>
    /\ <<"/","i","t","e","m","s">> \in DOMAIN resources
    /\ <<"/","d","e","f","i","n","i","t","i","o","n","s","/","s","/","i","t","e","m","s","/","0">> \in DOMAIN resources
====
